---- MODULE Spec2Model ----
(***************************************************************************)
(* Model of the user-reminders integration: the reminder collection kept   *)
(* in hass.data, the per-user list entities that create, update, remove    *)
(* and get reminders, and the scheduler that fires due reminders and       *)
(* writes last_fired back through the update service.                      *)
(*                                                                         *)
(* Time is counted in whole hours since 1970-01-01T00:00; a timestamp t    *)
(* falls on day t \div 24 at hour t % 24.                                  *)
(* All timestamps are taken in one time zone, so any two of them compare.  *)
(* The pdb.set_trace() left in async_create_reminder_item is a no-op.      *)
(***************************************************************************)
EXTENDS Integers, Sequences, FiniteSets, TLC

----------------------------------------------------------------------------
(* Bounds of the model *)

StartTime == 62          \* wall clock of the initial state: day 2, 14:00
MaxAdvance == 1          \* hours the wall clock may move forward
MaxUids == 2             \* reminders that can ever be created (uuid4 values)
MaxStarts == 3           \* start_scheduler calls (config entries set up), the first included

MaxTime == StartTime + MaxAdvance

(* Program constants *)

FireWindowHours == 24    \* timedelta(hours=24) in last_fired_in_over_24h
DefaultHour == 9         \* time(hour=9, minute=0, second=0)
HoursPerDay == 24        \* timedelta(days=1)

----------------------------------------------------------------------------
(* Values *)

None == "None"                          \* Python None where a string is expected
NoneT == [kind |-> "none", v |-> 0]     \* Python None where a date is expected
ValueError == [kind |-> "ValueError", v |-> 0]

Datetime(t) == [kind |-> "datetime", v |-> t]   \* datetime object
Date(d) == [kind |-> "date", v |-> d]           \* date object (no time part)
IsoDt(t) == [kind |-> "isodt", v |-> t]         \* str "YYYY-MM-DDTHH:MM:SS"
IsoD(d) == [kind |-> "isod", v |-> d]           \* str "YYYY-MM-DD"
BadStr == [kind |-> "badstr", v |-> 0]          \* str that is no ISO date

IsStr(x) == x.kind \in {"isodt", "isod", "badstr"}

Users == {"alice", "bob"}               \* hass.auth users that own a list

\* UserRemindersListEntity._attr_unique_id of the entity of user u
unique_id(u) == IF u = "alice" THEN "user_reminders_alice" ELSE "user_reminders_bob"

\* the values uuid4 hands out, in the order it hands them out
Uid(n) == IF n = 1 THEN "uid1" ELSE IF n = 2 THEN "uid2" ELSE IF n = 3 THEN "uid3" ELSE "uid4"
Uids == {Uid(n) : n \in 1..MaxUids}

VARIABLES
    now,             \* wall clock (datetime.now / the timer's now)
    reminders,       \* hass.data[DOMAIN]["reminders"]: dict uid -> record, in insertion order
    stored,          \* the mapping last passed to store.async_save
    reminder_items,  \* per entity: _attr_reminder_items
    nextUid,         \* number of uuid4 values handed out so far, plus one
    pending,         \* update_item service calls issued by the scheduler, not yet run
    fired,           \* due events put on the bus by the step just taken
    lastEmit,        \* per uid: wall clock of its latest due event (history)
    result,          \* outcome of the step just taken
    timers,          \* per start_scheduler call so far: is the timer it armed still armed
    scheduler        \* hass.data[DOMAIN]["scheduler"]: 0 for None, else the start
                     \* whose timer its time_interval_cancel cancels

vars == <<now, reminders, stored, reminder_items, nextUid, pending, fired,
          lastEmit, result, timers, scheduler>>

----------------------------------------------------------------------------
(* Python dict, as a sequence of [key, rec] entries in insertion order *)

Keys(d) == {d[i].key : i \in 1..Len(d)}
Values(d) == [i \in 1..Len(d) |-> d[i].rec]
IndexOf(d, k) == CHOOSE i \in 1..Len(d) : d[i].key = k
DictGet(d, k) == d[IndexOf(d, k)].rec

\* d[k] = rec : replaces the value of an existing key in place, else appends
DictSet(d, k, rec) ==
    IF k \in Keys(d)
    THEN [i \in 1..Len(d) |-> IF d[i].key = k THEN [key |-> k, rec |-> rec] ELSE d[i]]
    ELSE Append(d, [key |-> k, rec |-> rec])

\* del d[k], for a key that is present
DictDel(d, k) == SelectSeq(d, LAMBDA en : en.key # k)

----------------------------------------------------------------------------
(* Dates *)

\* variant of isoformat: the time part is left out
isoformat_date_only(dt) == IsoD(dt.v \div HoursPerDay)

\* datetime.isoformat()
isoformat(dt) == IsoDt(dt.v)

\* datetime.fromisoformat(s): a date-only string parses to midnight of that day
fromisoformat(s) ==
    IF s.kind = "isodt" THEN Datetime(s.v)
    ELSE IF s.kind = "isod" THEN Datetime(s.v * HoursPerDay)
    ELSE ValueError

\* datetime.combine(d, time(hour=9, minute=0, second=0))
CombineNine(day) == Datetime(day * HoursPerDay + DefaultHour)

\* ReminderItemFactory.normalize_date(due_date, uid), called at wall clock t
normalize_date(due_date, t) ==
    LET parsed == IF IsStr(due_date) /\ fromisoformat(due_date) # ValueError
                  THEN fromisoformat(due_date)
                  ELSE due_date
    IN  IF parsed.kind = "datetime" THEN parsed
        ELSE IF parsed.kind = "date" THEN CombineNine(parsed.v)
        ELSE IF parsed.kind = "none" THEN Datetime(t + HoursPerDay)
        ELSE NoneT

\* ReminderItemFactory.build(ctx_uid): the ReminderItem it returns
build(factory, ctx_uid, t, uuid4) ==
    LET uid == IF factory.uid # None THEN factory.uid ELSE uuid4
        d0 == normalize_date(factory.due, t)
        d1 == IF d0 = NoneT THEN CombineNine((t + HoursPerDay) \div HoursPerDay) ELSE d0
        d2 == IF d1.kind = "date" THEN CombineNine(d1.v) ELSE d1
    IN  [uid |-> uid, list_id |-> factory.list_id, summary |-> factory.summary,
         due |-> d2, user_id |-> ctx_uid, last_fired |-> NoneT]

----------------------------------------------------------------------------
(* Who is calling *)

\* display name of a user (hass.auth user.name)
UserName(u) == IF u = "alice" THEN "Alice" ELSE "Bob"

\* a service call: the context user, whether the origin event is
\* automation_triggered, and call.data["user"]
Calls ==
    [user_id : Users \cup {None}, automation : BOOLEAN,
     user : {UserName(u) : u \in Users} \cup {None}]

\* _get_user_from_call(hass, call)
get_user_from_call(call) ==
    IF call.user_id \in Users THEN call.user_id ELSE None

\* _is_automation_driven_user(hass, call)
is_automation_driven_user(call) ==
    IF call.automation /\ \E u \in Users : UserName(u) = call.user
    THEN CHOOSE u \in Users : UserName(u) = call.user
    ELSE None

\* Python's  a or b  on user ids
Or(a, b) == IF a # None THEN a ELSE b

\* variant of NotOwner: every caller passes
NotOwner_never(ctx_uid, e) == FALSE

\* ctx_uid != self._user_id
NotOwner(ctx_uid, e) == ctx_uid # e

----------------------------------------------------------------------------
(* Reading the collection *)

\* load_reminders(unique_id, reminders): [err, items]; err when the loop raises
load_reminders(uq, d) ==
    LET vals == Values(d)
        Raises(r) ==
            \/ r.id = None
            \/ r.due = NoneT
            \/ /\ r.list_id = uq
               /\ \/ (r.last_fired # NoneT /\ fromisoformat(r.last_fired) = ValueError)
                  \/ fromisoformat(r.due) = ValueError
        InList(r) == r.list_id = uq
        Item(r) == [uid |-> r.id, list_id |-> uq, summary |-> r.summary,
                    due |-> fromisoformat(r.due), user_id |-> r.user_id,
                    last_fired |-> IF r.last_fired # NoneT
                                   THEN fromisoformat(r.last_fired) ELSE NoneT]
        kept == SelectSeq(vals, InList)
    IN  IF \E i \in 1..Len(vals) : Raises(vals[i])
        THEN [err |-> TRUE, items |-> <<>>]
        ELSE [err |-> FALSE, items |-> [i \in 1..Len(kept) |-> Item(kept[i])]]

\* variant of find_in_reminder_list: the owner of the item found is not checked
find_in_reminder_list_any_user(uq, ctx_uid, uid, items) ==
    LET reminder_filter(r) == r.list_id = uq /\ r.uid = uid
        found_reminder == SelectSeq(items, reminder_filter)
    IN  IF Len(found_reminder) = 0 THEN [status |-> "none", item |-> <<>>]
        ELSE IF Len(found_reminder) > 1 THEN [status |-> "ValueError", item |-> <<>>]
        ELSE [status |-> "found", item |-> <<found_reminder[1]>>]

\* find_in_reminder_list(unique_id, ctx_uid, uid, reminders)
find_in_reminder_list(uq, ctx_uid, uid, items) ==
    LET reminder_filter(r) == r.list_id = uq /\ r.uid = uid
        found_reminder == SelectSeq(items, reminder_filter)
    IN  IF Len(found_reminder) = 0 THEN [status |-> "none", item |-> <<>>]
        ELSE IF Len(found_reminder) > 1 THEN [status |-> "ValueError", item |-> <<>>]
        ELSE IF found_reminder[1].user_id # ctx_uid
             THEN [status |-> "ValueError", item |-> <<>>]
        ELSE [status |-> "found", item |-> <<found_reminder[1]>>]

\* UserRemindersListEntity._sync_reminders_to_items of entity e: the new
\* _attr_reminder_items
sync_reminders_to_items(d, e, t) ==
    LET vals == Values(d)
        Keep(r) == /\ r.id # None
                   /\ r.user_id = e
                   /\ normalize_date(r.due, t) # NoneT
        Item(r) == [uid |-> r.id, list_id |-> unique_id(e), summary |-> r.summary,
                    due |-> normalize_date(r.due, t), user_id |-> r.user_id,
                    last_fired |-> r.last_fired]
        kept == SelectSeq(vals, Keep)
    IN  [i \in 1..Len(kept) |-> Item(kept[i])]

----------------------------------------------------------------------------
(* The list entity's operations *)

Never == 0 - 1       \* no timestamp yet (history variables)

Outcome(op, e, ctx_uid, status, ret) ==
    [op |-> op, entity |-> e, ctx_uid |-> ctx_uid, status |-> status, ret |-> ret]

\* variant of CreatedRecord: the record's id is the list's id
CreatedRecord_list_id(reminder, e, ctx_uid) ==
    [id |-> reminder.list_id, list_id |-> unique_id(e), summary |-> reminder.summary,
     due |-> isoformat(reminder.due), user_id |-> ctx_uid, last_fired |-> NoneT]

\* the record async_create_reminder_item stores for the built reminder
CreatedRecord(reminder, e, ctx_uid) ==
    [id |-> reminder.uid, list_id |-> unique_id(e), summary |-> reminder.summary,
     due |-> isoformat(reminder.due), user_id |-> ctx_uid, last_fired |-> NoneT]

\* truth value of a str | None
Truthy(x) == x # None /\ x # ""

\* variant of UpdatedRecord: list and owner are taken from the item passed in
UpdatedRecord_item_owner(old, e, item, due) ==
    [id |-> item.uid,
     list_id |-> item.list_id,
     summary |-> IF Truthy(item.summary) THEN item.summary ELSE old.summary,
     due |-> IF due # NoneT THEN isoformat(due) ELSE old.due,
     user_id |-> item.user_id,
     last_fired |-> IF item.last_fired # NoneT THEN isoformat(item.last_fired) ELSE NoneT]

\* the record async_update_reminder_item stores over the record old
UpdatedRecord(old, e, item, due) ==
    [id |-> item.uid,
     list_id |-> unique_id(e),
     summary |-> IF Truthy(item.summary) THEN item.summary ELSE old.summary,
     due |-> IF due # NoneT THEN isoformat(due) ELSE old.due,
     user_id |-> old.user_id,
     last_fired |-> IF item.last_fired # NoneT THEN isoformat(item.last_fired) ELSE NoneT]

\* async_create_reminder_item(call, item) on the entity of user e
async_create_reminder_item(e, call, item) ==
    LET ctx_uid == Or(get_user_from_call(call), is_automation_driven_user(call))
        factory == [item EXCEPT !.list_id = unique_id(e)]
        reminder == build(factory, ctx_uid, now, Uid(nextUid))
        d == DictSet(reminders, reminder.uid, CreatedRecord(reminder, e, ctx_uid))
    IN  /\ IF NotOwner(ctx_uid, e)
           THEN /\ result' = Outcome("create", e, ctx_uid, "Unauthorized", <<>>)
                /\ UNCHANGED <<reminders, stored, reminder_items, nextUid>>
           ELSE /\ nextUid <= MaxUids
                /\ reminders' = d
                /\ reminder_items' =
                       [reminder_items EXCEPT ![e] = sync_reminders_to_items(d, e, now)]
                /\ stored' = d
                /\ nextUid' = nextUid + 1
                /\ result' = Outcome("create", e, ctx_uid, "ok", <<item>>)
        /\ fired' = <<>>
        /\ UNCHANGED <<now, pending, lastEmit, timers, scheduler>>

\* variant of update_reminder_item: a uid that is not found raises KeyError
update_reminder_item_raise_absent(d, e, ctx_uid, item, t) ==
    LET loaded == load_reminders(unique_id(e), d)
        reminder == find_in_reminder_list(unique_id(e), ctx_uid, item.uid, loaded.items)
        due == normalize_date(item.due, t)
    IN  IF NotOwner(ctx_uid, e)
        THEN [status |-> "Unauthorized", reminders |-> d, saved |-> FALSE]
        ELSE IF loaded.err \/ reminder.status = "ValueError"
        THEN [status |-> "ValueError", reminders |-> d, saved |-> FALSE]
        ELSE IF reminder.status = "none" \/ item.uid \notin Keys(d)
        THEN [status |-> "KeyError", reminders |-> d, saved |-> FALSE]
        ELSE [status |-> "ok",
              reminders |-> DictSet(d, item.uid,
                                    UpdatedRecord(DictGet(d, item.uid), e, item, due)),
              saved |-> TRUE]

\* variant of update_reminder_item: a uid that is not found is stored as a
\* new record
update_reminder_item_upsert(d, e, ctx_uid, item, t) ==
    LET loaded == load_reminders(unique_id(e), d)
        reminder == find_in_reminder_list(unique_id(e), ctx_uid, item.uid, loaded.items)
        due == normalize_date(item.due, t)
        old == IF item.uid \in Keys(d) THEN DictGet(d, item.uid)
               ELSE [id |-> item.uid, list_id |-> unique_id(e), summary |-> item.summary,
                     due |-> isoformat(due), user_id |-> ctx_uid, last_fired |-> NoneT]
    IN  IF NotOwner(ctx_uid, e)
        THEN [status |-> "Unauthorized", reminders |-> d, saved |-> FALSE]
        ELSE IF loaded.err \/ reminder.status = "ValueError"
        THEN [status |-> "ValueError", reminders |-> d, saved |-> FALSE]
        ELSE [status |-> "ok",
              reminders |-> DictSet(d, item.uid, UpdatedRecord(old, e, item, due)),
              saved |-> TRUE]

\* what async_update_reminder_item(call, item) of entity e does to the
\* collection d when the call's user resolves to ctx_uid
update_reminder_item(d, e, ctx_uid, item, t) ==
    LET loaded == load_reminders(unique_id(e), d)
        reminder == find_in_reminder_list(unique_id(e), ctx_uid, item.uid, loaded.items)
        due == normalize_date(item.due, t)
    IN  IF NotOwner(ctx_uid, e)
        THEN [status |-> "Unauthorized", reminders |-> d, saved |-> FALSE]
        ELSE IF loaded.err \/ reminder.status = "ValueError"
        THEN [status |-> "ValueError", reminders |-> d, saved |-> FALSE]
        ELSE IF reminder.status = "none"
        THEN [status |-> "ok", reminders |-> d, saved |-> FALSE]
        ELSE IF item.uid \notin Keys(d)
        THEN [status |-> "KeyError", reminders |-> d, saved |-> FALSE]
        ELSE [status |-> "ok",
              reminders |-> DictSet(d, item.uid,
                                    UpdatedRecord(DictGet(d, item.uid), e, item, due)),
              saved |-> TRUE]

\* async_update_reminder_item, called from outside (op = "update") or by the
\* scheduler's service call (op = "writeback")
ApplyUpdate(op, e, ctx_uid, item) ==
    LET out == update_reminder_item(reminders, e, ctx_uid, item, now)
    IN  /\ reminders' = out.reminders
        /\ stored' = IF out.saved THEN out.reminders ELSE stored
        /\ reminder_items' =
               IF out.saved
               THEN [reminder_items EXCEPT
                        ![e] = sync_reminders_to_items(out.reminders, e, now)]
               ELSE reminder_items
        /\ result' = Outcome(op, e, ctx_uid, out.status,
                             IF out.saved THEN <<item>> ELSE <<>>)

async_update_reminder_item(e, call, item) ==
    /\ ApplyUpdate("update", e, get_user_from_call(call), item)
    /\ fired' = <<>>
    /\ UNCHANGED <<now, nextUid, pending, lastEmit, timers, scheduler>>

\* variant of RemoveLoop: the loop stops at the first uid that is not found
RECURSIVE RemoveLoop_stop_at_miss(_, _, _, _, _)
RemoveLoop_stop_at_miss(d, uq, ctx_uid, items, uids) ==
    IF uids = <<>> THEN [status |-> "ok", reminders |-> d]
    ELSE LET reminder == find_in_reminder_list(uq, ctx_uid, Head(uids), items)
         IN  IF reminder.status = "ValueError"
             THEN [status |-> "ValueError", reminders |-> d]
             ELSE IF reminder.status = "found"
             THEN IF Head(uids) \in Keys(d)
                  THEN RemoveLoop_stop_at_miss(DictDel(d, Head(uids)), uq, ctx_uid,
                                               items, Tail(uids))
                  ELSE [status |-> "KeyError", reminders |-> d]
             ELSE [status |-> "ok", reminders |-> d]

\* the loop of async_remove_reminder_items over uids: [status, reminders]
RECURSIVE RemoveLoop(_, _, _, _, _)
RemoveLoop(d, uq, ctx_uid, items, uids) ==
    IF uids = <<>> THEN [status |-> "ok", reminders |-> d]
    ELSE LET reminder == find_in_reminder_list(uq, ctx_uid, Head(uids), items)
         IN  IF reminder.status = "ValueError"
             THEN [status |-> "ValueError", reminders |-> d]
             ELSE IF reminder.status = "found"
             THEN IF Head(uids) \in Keys(d)
                  THEN RemoveLoop(DictDel(d, Head(uids)), uq, ctx_uid, items, Tail(uids))
                  ELSE [status |-> "KeyError", reminders |-> d]
             ELSE RemoveLoop(d, uq, ctx_uid, items, Tail(uids))

\* async_remove_reminder_items(call, uids) on the entity of user e
async_remove_reminder_items(e, call, uids) ==
    LET ctx_uid == get_user_from_call(call)
        loaded == load_reminders(unique_id(e), reminders)
        out == RemoveLoop(reminders, unique_id(e), ctx_uid, loaded.items, uids)
        \* per uid of the call, whether the lookup found it ("Item ... not found" is
        \* logged when it did not)
        lookups == [i \in 1..Len(uids) |->
                       [uid |-> uids[i],
                        found |-> find_in_reminder_list(unique_id(e), ctx_uid, uids[i],
                                                        loaded.items).status = "found"]]
    IN  /\ IF NotOwner(ctx_uid, e)
           THEN /\ result' = Outcome("remove", e, ctx_uid, "Unauthorized", <<>>)
                /\ UNCHANGED <<reminders, stored, reminder_items>>
           ELSE IF loaded.err
           THEN /\ result' = Outcome("remove", e, ctx_uid, "ValueError", <<>>)
                /\ UNCHANGED <<reminders, stored, reminder_items>>
           ELSE IF out.status # "ok"
           THEN /\ result' = Outcome("remove", e, ctx_uid, out.status, <<>>)
                /\ reminders' = out.reminders
                /\ UNCHANGED <<stored, reminder_items>>
           ELSE /\ result' = Outcome("remove", e, ctx_uid, "ok", lookups)
                /\ reminders' = out.reminders
                /\ reminder_items' =
                       [reminder_items EXCEPT
                           ![e] = sync_reminders_to_items(out.reminders, e, now)]
                /\ stored' = out.reminders
        /\ fired' = <<>>
        /\ UNCHANGED <<now, nextUid, pending, lastEmit, timers, scheduler>>

\* the loop of async_get_reminder_items over uids: [status, items]
RECURSIVE GetLoop(_, _, _, _)
GetLoop(uq, ctx_uid, items, uids) ==
    IF uids = <<>> THEN [status |-> "ok", items |-> <<>>]
    ELSE LET reminder == find_in_reminder_list(uq, ctx_uid, Head(uids), items)
             rest == GetLoop(uq, ctx_uid, items, Tail(uids))
         IN  IF reminder.status = "ValueError" \/ rest.status = "ValueError"
             THEN [status |-> "ValueError", items |-> <<>>]
             ELSE [status |-> "ok", items |-> reminder.item \o rest.items]

\* what async_get_reminder_items(call, uids) of entity e returns; uids = <<>>
\* stands for both None and the empty list (both are falsy)
get_reminder_items(d, e, ctx_uid, uids) ==
    LET loaded == load_reminders(unique_id(e), d)
        OwnedBy(r) == r.user_id = ctx_uid
    IN  IF loaded.err THEN [status |-> "ValueError", items |-> <<>>]
        ELSE IF uids # <<>> THEN GetLoop(unique_id(e), ctx_uid, loaded.items, uids)
        ELSE [status |-> "ok", items |-> SelectSeq(loaded.items, OwnedBy)]

async_get_reminder_items(e, call, uids) ==
    LET ctx_uid == get_user_from_call(call)
        out == get_reminder_items(reminders, e, ctx_uid, uids)
    IN  /\ result' = Outcome("get", e, ctx_uid, out.status, out.items)
        /\ fired' = <<>>
        /\ UNCHANGED <<now, reminders, stored, reminder_items, nextUid, pending,
                       lastEmit, timers, scheduler>>

----------------------------------------------------------------------------
(* The scheduler *)

\* variants of last_fired_in_over_24h: a strict comparison; no throttle at all
last_fired_in_over_24h_strict(r, t) ==
    IF r.last_fired = NoneT THEN TRUE
    ELSE r.last_fired.v < t - FireWindowHours

last_fired_in_over_24h_always(r, t) == TRUE

\* last_fired_in_over_24h(r), evaluated at wall clock t
last_fired_in_over_24h(r, t) ==
    IF r.last_fired = NoneT THEN TRUE
    ELSE r.last_fired.v <= t - FireWindowHours

\* variant of CheckItem: the record's last_fired is not read
CheckItem_without_last_fired(rec) ==
    [uid |-> rec.id, list_id |-> rec.list_id, summary |-> rec.summary,
     due |-> fromisoformat(rec.due), user_id |-> rec.user_id,
     last_fired |-> NoneT]

\* the ReminderItem _check builds from a stored record
CheckItem(rec) ==
    [uid |-> rec.id, list_id |-> rec.list_id, summary |-> rec.summary,
     due |-> fromisoformat(rec.due), user_id |-> rec.user_id,
     last_fired |-> IF rec.last_fired # NoneT
                    THEN fromisoformat(rec.last_fired) ELSE NoneT]

\* _check raises while it builds the ReminderItem of this record
CheckRaises(rec) ==
    \/ rec.due = NoneT
    \/ fromisoformat(rec.due) = ValueError
    \/ (rec.last_fired # NoneT /\ fromisoformat(rec.last_fired) = ValueError)

\* the condition under which _check fires r at its argument now = t
ShouldFire(r, t) == r.due.v <= t /\ last_fired_in_over_24h(r, t)

\* the payload of the due event of r
DueEvent(r) ==
    [uid |-> r.uid, summary |-> r.summary, due |-> isoformat(r.due),
     user_id |-> r.user_id, list_id |-> r.list_id]

\* the update_item service call _check issues for r: its service_data and
\* the context user
ServiceCall(r, t) ==
    [list_id |-> r.list_id, uid |-> r.uid, summary |-> r.summary,
     due |-> isoformat(r.due), last_fired |-> Datetime(t), user_id |-> r.user_id]

\* the records _check gets through before it raises, if it does
Checked(d) ==
    LET vals == Values(d)
        bad == {i \in 1..Len(vals) : CheckRaises(vals[i])}
        n == IF bad = {} THEN Len(vals)
             ELSE (CHOOSE i \in bad : \A j \in bad : i <= j) - 1
    IN  [i \in 1..n |-> CheckItem(vals[i])]

\* hass.services.async_call validates the service data against
\* SERVICE_UPDATE_SCHEMA before it schedules the call, and raises when the
\* uid is not a uuid4 hex string
CallRaises(r) == r.uid = None

\* _check(now): one poll tick.  An armed timer fires it every CHECK_INTERVAL,
\* by which time the service calls of the tick before have run.  The loop
\* ends at the first record that raises: while its item is built, or, after
\* its event is fired, when its service call is issued.
Check ==
    LET items == Checked(reminders)
        Fire(r) == ShouldFire(r, now)
        Refused(r) == Fire(r) /\ CallRaises(r)
        Issued(r) == ~CallRaises(r)
        refused == {i \in 1..Len(items) : Refused(items[i])}
        n == IF refused = {} THEN Len(items)
             ELSE CHOOSE i \in refused : \A j \in refused : i <= j
        due_items == SelectSeq(SubSeq(items, 1, n), Fire)
        calls == SelectSeq(due_items, Issued)
        uids == {due_items[i].uid : i \in 1..Len(due_items)}
    IN  /\ \E i \in 1..Len(timers) : timers[i]
        /\ pending = <<>>
        /\ fired' = [i \in 1..Len(due_items) |-> DueEvent(due_items[i])]
        /\ pending' = [i \in 1..Len(calls) |-> ServiceCall(calls[i], now)]
        /\ lastEmit' = [u \in Uids |-> IF u \in uids THEN now ELSE lastEmit[u]]
        /\ result' = Outcome("tick", None, None,
                             IF refused # {} THEN "Invalid"
                             ELSE IF Len(items) = Len(reminders) THEN "ok"
                             ELSE "ValueError",
                             <<>>)
        /\ UNCHANGED <<now, reminders, stored, reminder_items, nextUid, timers, scheduler>>

\* the update_item service runs the oldest call the scheduler issued: the
\* entity is the one whose list the call names, the item is built from the
\* validated service data (SERVICE_UPDATE_SCHEMA parses due)
WriteBack ==
    /\ pending # <<>>
    /\ LET sd == Head(pending)
           item == [uid |-> sd.uid, list_id |-> "", summary |-> sd.summary,
                    due |-> fromisoformat(sd.due), user_id |-> None,
                    last_fired |-> sd.last_fired]
           call == [user_id |-> sd.user_id, automation |-> FALSE, user |-> None]
       IN  \E e \in Users :
              /\ unique_id(e) = sd.list_id
              /\ ApplyUpdate("writeback", e, get_user_from_call(call), item)
    /\ pending' = Tail(pending)
    /\ fired' = <<>>
    /\ UNCHANGED <<now, nextUid, lastEmit, timers, scheduler>>

\* async_setup_entry of a config entry: the collection is loaded from the
\* store, a new Scheduler is put in hass.data and started; the list entities
\* of the users exist already and are not added again
async_setup_entry ==
    /\ Len(timers) < MaxStarts
    /\ reminders' = stored
    /\ timers' = Append(timers, TRUE)
    /\ scheduler' = Len(timers) + 1
    /\ fired' = <<>>
    /\ result' = Outcome("setup", None, None, "ok", <<>>)
    /\ UNCHANGED <<now, stored, reminder_items, nextUid, pending, lastEmit>>

\* Scheduler.stop_scheduler of the scheduler that start number s started
stop_scheduler(s) == [timers EXCEPT ![s] = FALSE]

\* variant of async_unload_entry: the service calls the last tick issued are
\* dropped with the timer
async_unload_entry_cancelling ==
    /\ IF scheduler # 0
       THEN /\ timers' = stop_scheduler(scheduler)
            /\ scheduler' = 0
       ELSE UNCHANGED <<timers, scheduler>>
    /\ pending' = <<>>
    /\ fired' = <<>>
    /\ result' = Outcome("unload", None, None, "ok", <<>>)
    /\ UNCHANGED <<now, reminders, stored, reminder_items, nextUid, lastEmit>>

\* async_unload_entry of a config entry
async_unload_entry ==
    /\ IF scheduler # 0
       THEN /\ timers' = stop_scheduler(scheduler)
            /\ scheduler' = 0
       ELSE UNCHANGED <<timers, scheduler>>
    /\ fired' = <<>>
    /\ result' = Outcome("unload", None, None, "ok", <<>>)
    /\ UNCHANGED <<now, reminders, stored, reminder_items, nextUid, pending, lastEmit>>

\* the wall clock moves on by an hour
Advance ==
    /\ now < MaxTime
    /\ now' = now + 1
    /\ fired' = <<>>
    /\ result' = Outcome("advance", None, None, "ok", <<>>)
    /\ UNCHANGED <<reminders, stored, reminder_items, nextUid, pending, lastEmit,
                   timers, scheduler>>

----------------------------------------------------------------------------
(* Inputs of the service calls *)

\* contexts of external calls: a call of a logged-in user or without a
\* (known) context user, and calls an automation makes in the name of a user
UserCalls == {c \in Calls : ~c.automation /\ c.user = None}
AutomationCalls == {c \in Calls : c.automation /\ c.user_id = None /\ c.user # None}

\* calls of the logged-in users
LoggedInCalls == {c \in UserCalls : c.user_id # None}

\* ReminderItemFactory(summary=..., due=...) of _async_add_reminder_item
CreateInputs(dues) ==
    [uid : {None}, list_id : {None}, summary : {"milk"}, due : dues]

\* the ReminderItem _async_update_reminder_item builds from the call data
UpdateInputs(summaries, dues, last_fireds) ==
    [uid : Uids, list_id : {""}, summary : summaries, due : dues, user_id : {None},
     last_fired : last_fireds]

\* uids lists: one uid, or two (the same uid twice included)
UidLists == {<<u>> : u \in Uids} \cup {<<u, v>> : u, v \in Uids}

Init ==
    /\ now = StartTime
    /\ reminders = <<>>
    /\ stored = <<>>
    /\ reminder_items = [e \in Users |-> <<>>]
    /\ nextUid = 1
    /\ pending = <<>>
    /\ fired = <<>>
    /\ lastEmit = [u \in Uids |-> Never]
    /\ result = Outcome("init", None, None, "ok", <<>>)
    /\ timers = <<TRUE>>
    /\ scheduler = 1

----------------------------------------------------------------------------
(* Spec: the lists of two users, called by their owners and by others *)

Create ==
    \E e \in Users, call \in UserCalls \cup AutomationCalls,
       item \in CreateInputs({NoneT}) :
        async_create_reminder_item(e, call, item)

Update ==
    \E e \in Users, call \in LoggedInCalls,
       item \in UpdateInputs({"", "bread"}, {Datetime(StartTime + HoursPerDay)}, {NoneT}) :
        async_update_reminder_item(e, call, item)

Remove ==
    \E e \in Users, call \in LoggedInCalls, uids \in UidLists :
        async_remove_reminder_items(e, call, uids)

Get ==
    \E e \in Users, call \in LoggedInCalls :
        async_get_reminder_items(e, call, <<>>)

Next == Create \/ Update \/ Remove \/ Get

Spec == Init /\ [][Next]_vars

----------------------------------------------------------------------------
(* SpecSched: the scheduler and the calls that interleave with its ticks *)

MaxSchedUids == 1    \* reminders created while the scheduler is watched

CreateS ==
    /\ nextUid <= MaxSchedUids
    /\ \E e \in Users, call \in LoggedInCalls,
          item \in CreateInputs({Datetime(StartTime)}) :
          async_create_reminder_item(e, call, item)

UpdateS ==
    \E e \in Users, call \in LoggedInCalls,
       item \in UpdateInputs({"", "bread"}, {Datetime(StartTime - 1)}, {NoneT}) :
        async_update_reminder_item(e, call, item)

RemoveS ==
    \E e \in Users, call \in LoggedInCalls, u \in Uids :
        async_remove_reminder_items(e, call, <<u>>)

NextSched == CreateS \/ UpdateS \/ RemoveS \/ Check \/ WriteBack

SpecSched == Init /\ [][NextSched]_vars

----------------------------------------------------------------------------
(* SpecWindow: one list and the scheduler around the 24 hour window *)

\* last_fired values 25, 24 and 23 hours before the start
WindowInputs == {Datetime(StartTime - h) : h \in (FireWindowHours - 1)..(FireWindowHours + 1)}

OwnerCall(e) == [user_id |-> e, automation |-> FALSE, user |-> None]

CreateW ==
    /\ nextUid <= MaxSchedUids
    /\ \E item \in CreateInputs({NoneT, Datetime(StartTime), Datetime(StartTime + 1)}) :
          async_create_reminder_item("alice", OwnerCall("alice"), item)

UpdateW ==
    \E item \in UpdateInputs({""}, {Datetime(StartTime)}, WindowInputs \cup {NoneT}) :
        async_update_reminder_item("alice", OwnerCall("alice"), item)

NextWindow == CreateW \/ UpdateW \/ Check \/ WriteBack \/ Advance

SpecWindow == Init /\ [][NextWindow]_vars

----------------------------------------------------------------------------
(* SpecOwner: each list called by its owner, with every kind of due input *)

\* uids lists of get_items: none given, or one of UidLists
GetUidLists == {<<>>} \cup UidLists

CreateO ==
    \E e \in Users,
       item \in CreateInputs({NoneT, Datetime(StartTime), Date(StartTime \div HoursPerDay)}) :
        async_create_reminder_item(e, OwnerCall(e), item)

RemoveO ==
    \E e \in Users, u \in Uids :
        async_remove_reminder_items(e, OwnerCall(e), <<u>>)

GetO ==
    \E e \in Users, uids \in {<<>>} \cup {<<u>> : u \in Uids} :
        async_get_reminder_items(e, OwnerCall(e), uids)

NextOwner == CreateO \/ RemoveO \/ GetO

SpecOwner == Init /\ [][NextOwner]_vars

----------------------------------------------------------------------------
(* SpecLists: remove and get called by list owners with every uids list *)

CreateL ==
    \E e \in Users, item \in CreateInputs({NoneT}) :
        async_create_reminder_item(e, OwnerCall(e), item)

RemoveL ==
    \E e \in Users, uids \in UidLists :
        async_remove_reminder_items(e, OwnerCall(e), uids)

GetL ==
    \E e \in Users, uids \in GetUidLists :
        async_get_reminder_items(e, OwnerCall(e), uids)

NextLists == CreateL \/ RemoveL \/ GetL

SpecLists == Init /\ [][NextLists]_vars

----------------------------------------------------------------------------
(* SpecEntries: config entries set up and unloaded while reminders fire *)

CreateE ==
    /\ nextUid <= MaxSchedUids
    /\ \E item \in CreateInputs({NoneT, Datetime(StartTime)}) :
          async_create_reminder_item("alice", OwnerCall("alice"), item)

UpdateE ==
    \E item \in UpdateInputs({"", "bread"}, {Datetime(StartTime)}, {NoneT}) :
        async_update_reminder_item("alice", OwnerCall("alice"), item)

NextEntries ==
    CreateE \/ UpdateE \/ async_setup_entry \/ async_unload_entry \/ Check \/ WriteBack

SpecEntries == Init /\ [][NextEntries]_vars

----------------------------------------------------------------------------
(* SpecStop: the scheduler stopped and started again around a firing *)

CreateP ==
    /\ nextUid <= MaxSchedUids
    /\ async_create_reminder_item("alice", OwnerCall("alice"),
                                  [uid |-> None, list_id |-> None, summary |-> "milk",
                                   due |-> Datetime(StartTime)])

\* the owner's update that races with the call the tick issued
UpdateP ==
    /\ pending # <<>>
    /\ \E item \in UpdateInputs({"bread"}, {Datetime(StartTime)}, {NoneT}) :
          /\ item.uid = Head(pending).uid
          /\ async_update_reminder_item("alice", OwnerCall("alice"), item)

RemoveP ==
    \E u \in Keys(reminders) :
        async_remove_reminder_items("alice", OwnerCall("alice"), <<u>>)

\* the entry is set up again after it was unloaded
StartP == scheduler = 0 /\ async_setup_entry

NextStop ==
    CreateP \/ UpdateP \/ RemoveP \/ StartP \/ async_unload_entry \/ Check \/ WriteBack

\* the scheduling the code relies on: the event loop runs every service
\* call _check has issued with blocking=False
SpecStop == Init /\ [][NextStop]_vars /\ WF_vars(WriteBack)

----------------------------------------------------------------------------
(* SpecStore: the integration set up on a store file that may hold records *)
(* the services did not write                                              *)

\* the user who is not u
OtherUser(u) == CHOOSE v \in Users : v # u

\* a record of the store file: written by the services (due an hour ago,
\* never fired), or with a due that is no ISO date, no due, no id, or with
\* the user_id of a user other than the owner of its list
StoreRecord(u, owner, shape) ==
    [id |-> IF shape = "no id" THEN None ELSE u,
     list_id |-> unique_id(owner),
     summary |-> "milk",
     due |-> IF shape = "bad due" THEN BadStr
             ELSE IF shape = "no due" THEN NoneT
             ELSE IsoDt(StartTime - 1),
     user_id |-> IF shape = "other user" THEN OtherUser(owner) ELSE owner,
     last_fired |-> NoneT]

Shapes == {"good", "bad due", "no due", "no id"}

\* the files: MaxUids records of the given shapes under the keys uid1, uid2, ...
StoreFilesOf(shapes) ==
    {[i \in 1..MaxUids |-> [key |-> Uid(i), rec |-> StoreRecord(Uid(i), f[i][1], f[i][2])]] :
        f \in [1..MaxUids -> Users \X shapes]}

StoreFiles == StoreFilesOf(Shapes)

\* the state after async_setup_entry has loaded one of the files
InitLoaded(files) ==
    /\ now = StartTime
    /\ reminders \in files
    /\ stored = reminders
    /\ reminder_items = [e \in Users |-> sync_reminders_to_items(reminders, e, now)]
    /\ nextUid = MaxUids + 1
    /\ pending = <<>>
    /\ fired = <<>>
    /\ lastEmit = [u \in Uids |-> Never]
    /\ result = Outcome("init", None, None, "ok", <<>>)
    /\ timers = <<TRUE>>
    /\ scheduler = 1

InitStore == InitLoaded(StoreFiles)

GetF ==
    \E e \in Users, uids \in {<<>>} \cup {<<u>> : u \in Uids} :
        async_get_reminder_items(e, OwnerCall(e), uids)

UpdateF ==
    \E e \in Users, item \in UpdateInputs({"bread"}, {Datetime(StartTime)}, {NoneT}) :
        async_update_reminder_item(e, OwnerCall(e), item)

RemoveF ==
    \E e \in Users, u \in Uids :
        async_remove_reminder_items(e, OwnerCall(e), <<u>>)

NextStore == GetF \/ UpdateF \/ RemoveF \/ Check \/ WriteBack

SpecStore == InitStore /\ [][NextStore]_vars

\* the same with the scheduling the code relies on: async_track_time_interval
\* keeps calling _check while the timer is armed, and the event loop runs
\* every service call _check has issued
NextLive == RemoveF \/ Check \/ WriteBack

SpecLive == InitStore /\ [][NextLive]_vars /\ WF_vars(Check) /\ WF_vars(WriteBack)

----------------------------------------------------------------------------
(* SpecNormalize: normalize_date applied to every kind of due value *)

\* the values a due can have when normalize_date is called: what the service
\* schema or an intent passes (datetime, date, None) and what the store file
\* holds (strings)
NormalizeInputs ==
    {Datetime(t) : t \in 0..MaxTime} \cup {IsoDt(t) : t \in 0..MaxTime}
        \cup {Date(d) : d \in 0..(MaxTime \div HoursPerDay)}
        \cup {IsoD(d) : d \in 0..(MaxTime \div HoursPerDay)}
        \cup {NoneT, BadStr}

NormalizeDate ==
    \E due_date \in NormalizeInputs :
        /\ result' = Outcome("normalize_date", None, None, "ok",
                             <<[due_date |-> due_date,
                                ret |-> normalize_date(due_date, now)]>>)
        /\ fired' = <<>>
        /\ UNCHANGED <<now, reminders, stored, reminder_items, nextUid, pending,
                       lastEmit, timers, scheduler>>

NextNormalize == NormalizeDate

SpecNormalize == Init /\ [][NextNormalize]_vars

----------------------------------------------------------------------------
(* The intent time resolver (intents.py).  Its datetimes count seconds     *)
(* since BaseYear-01-01T00:00:00, which is a Monday.                       *)

SecondsPerMinute == 60
SecondsPerHour == 3600
SecondsPerDay == 86400
DaysPerWeek == 7
BaseYear == 2024
Absent == 0 - 1                 \* a regex group that did not take part in the match

\* date(): the day a datetime falls on, and its clock
DayOf(dt) == dt.v \div SecondsPerDay
HourOf(dt) == (dt.v % SecondsPerDay) \div SecondsPerHour

\* datetime.weekday(): Monday is 0
weekday(dt) == DayOf(dt) % DaysPerWeek

\* dt + timedelta(seconds=s)
Plus(dt, s) == Datetime(dt.v + s)

\* dt.replace(hour=h, minute=m, second=0, microsecond=0)
replace_time(dt, h, m) ==
    IF h > 23 \/ m > 59 THEN ValueError
    ELSE Datetime(DayOf(dt) * SecondsPerDay + h * SecondsPerHour + m * SecondsPerMinute)

\* UNSET_DATE = datetime(1970, 1, 1): 19723 days before BaseYear-01-01
UNSET_DATE == Datetime((0 - 19723) * SecondsPerDay)

\* the calendar
IsLeap(y) == (y % 4 = 0 /\ y % 100 # 0) \/ y % 400 = 0

DaysInYear(y) == IF IsLeap(y) THEN 366 ELSE 365

DaysInMonth(y, mo) ==
    IF mo = 2 THEN (IF IsLeap(y) THEN 29 ELSE 28)
    ELSE IF mo \in {4, 6, 9, 11} THEN 30 ELSE 31

RECURSIVE DaysBeforeYear(_)
DaysBeforeYear(y) ==
    IF y <= BaseYear THEN 0 ELSE DaysBeforeYear(y - 1) + DaysInYear(y - 1)

RECURSIVE DaysBeforeMonth(_, _)
DaysBeforeMonth(y, mo) ==
    IF mo <= 1 THEN 0 ELSE DaysBeforeMonth(y, mo - 1) + DaysInMonth(y, mo - 1)

\* datetime.year, .month, .day of a datetime of the years the model reaches
YearOf(dt) ==
    CHOOSE y \in BaseYear..(BaseYear + 2) :
        DaysBeforeYear(y) <= DayOf(dt) /\ DayOf(dt) < DaysBeforeYear(y + 1)

MonthOf(dt) ==
    LET y == YearOf(dt)
        doy == DayOf(dt) - DaysBeforeYear(y)
    IN  CHOOSE mo \in 1..12 :
            DaysBeforeMonth(y, mo) <= doy /\ doy < DaysBeforeMonth(y, mo) + DaysInMonth(y, mo)

DayOfMonth(dt) ==
    DayOf(dt) - DaysBeforeYear(YearOf(dt)) - DaysBeforeMonth(YearOf(dt), MonthOf(dt)) + 1

\* now.replace(year=y, month=mo, day=d, hour=9, minute=0, second=0, microsecond=0)
replace_date(y, mo, d) ==
    IF d < 1 \/ d > DaysInMonth(y, mo) THEN ValueError
    ELSE Datetime((DaysBeforeYear(y) + DaysBeforeMonth(y, mo) + d - 1) * SecondsPerDay
                  + DefaultHour * SecondsPerHour)

\* str.lower() on the slot texts the model uses
lower(s) ==
    CASE s = "Monday" -> "monday"
      [] s = "Tomorrow" -> "tomorrow"
      [] s = "Minutes" -> "minutes"
      [] s = "Evening" -> "evening"
      [] s = "PM" -> "pm"
      [] OTHER -> s

DAY_NAME_TO_WEEKDAY ==
    [n \in {"monday", "mon", "tuesday", "tues", "wednesday", "wed", "weds",
            "thursday", "thu", "friday", "fri", "saturday", "sat", "sunday", "sun"} |->
        CASE n \in {"monday", "mon"} -> 0
          [] n \in {"tuesday", "tues"} -> 1
          [] n \in {"wednesday", "wed", "weds"} -> 2
          [] n \in {"thursday", "thu"} -> 3
          [] n \in {"friday", "fri"} -> 4
          [] n \in {"saturday", "sat"} -> 5
          [] n \in {"sunday", "sun"} -> 6]

MONTH_NAME_TO_NUMBER ==
    [n \in {"january", "jan", "february", "feb", "march", "mar", "april", "apr",
            "may", "june", "jun", "july", "jul", "august", "aug", "september",
            "sep", "october", "oct", "november", "nov", "december", "dec"} |->
        CASE n \in {"january", "jan"} -> 1
          [] n \in {"february", "feb"} -> 2
          [] n \in {"march", "mar"} -> 3
          [] n \in {"april", "apr"} -> 4
          [] n = "may" -> 5
          [] n \in {"june", "jun"} -> 6
          [] n \in {"july", "jul"} -> 7
          [] n \in {"august", "aug"} -> 8
          [] n \in {"september", "sep"} -> 9
          [] n \in {"october", "oct"} -> 10
          [] n \in {"november", "nov"} -> 11
          [] n \in {"december", "dec"} -> 12]

\* the timedelta of a unit, in seconds
TIME_UNIT_TO_TIMEDELTA ==
    [u \in {"minute", "minutes", "hour", "hours", "day", "days", "week", "weeks"} |->
        CASE u \in {"minute", "minutes"} -> SecondsPerMinute
          [] u \in {"hour", "hours"} -> SecondsPerHour
          [] u \in {"day", "days"} -> SecondsPerDay
          [] u \in {"week", "weeks"} -> DaysPerWeek * SecondsPerDay]

TIME_PERIOD_TO_HOUR ==
    [p \in {"morning", "afternoon", "evening", "night"} |->
        CASE p = "morning" -> 9
          [] p = "afternoon" -> 14
          [] p = "evening" -> 18
          [] p = "night" -> 21]

\* int(s) for the numerals the model uses; int raises ValueError on any
\* other text
int == [s \in {"1", "2", "3"} |-> CASE s = "1" -> 1 [] s = "2" -> 2 [] s = "3" -> 3]

\* re.sub(r"[^\d]", "", ordinal): the digits of an ordinal, "" when it has none
OrdinalDigits(s) ==
    CASE s = "1st" -> "1"
      [] s = "2nd" -> "2"
      [] s = "3rd" -> "3"
      [] s = "15th" -> "15"
      [] s = "29th" -> "29"
      [] s = "31st" -> "31"
      [] OTHER -> ""

\* int() of such digits
OrdinalInt ==
    [s \in {"1", "2", "3", "15", "29", "31"} |->
        CASE s = "1" -> 1 [] s = "2" -> 2 [] s = "3" -> 3
          [] s = "15" -> 15 [] s = "29" -> 29 [] s = "31" -> 31]

\* ReminderTimeResolver.handle_relative_day(now, relative_day)
handle_relative_day(t, relative_day) ==
    LET rd == lower(relative_day)
        days_until_saturday == (5 - weekday(t)) % DaysPerWeek
    IN  IF rd = "today" THEN t
        ELSE IF rd = "tomorrow" THEN Plus(t, SecondsPerDay)
        ELSE IF rd = "tonight"
        THEN replace_time(IF HourOf(t) > 21 THEN Plus(t, SecondsPerDay) ELSE t, 21, 0)
        ELSE IF rd = "next week" THEN Plus(t, DaysPerWeek * SecondsPerDay)
        ELSE IF rd = "this week" THEN t
        ELSE IF rd = "this weekend"
        THEN IF days_until_saturday = 0 /\ weekday(t) = 5 THEN t
             ELSE Plus(t, days_until_saturday * SecondsPerDay)
        ELSE IF rd = "next weekend"
        THEN Plus(t, (days_until_saturday + DaysPerWeek) * SecondsPerDay)
        ELSE NoneT

\* variant of handle_day_name: a target that is today's weekday stays today
handle_day_name_same_day(t, day_name) ==
    IF lower(day_name) \in DOMAIN DAY_NAME_TO_WEEKDAY
    THEN LET d == DAY_NAME_TO_WEEKDAY[lower(day_name)] - weekday(t)
         IN  Plus(t, (IF d < 0 THEN d + DaysPerWeek ELSE d) * SecondsPerDay)
    ELSE NoneT

\* ReminderTimeResolver.handle_day_name(now, day_name)
handle_day_name(t, day_name) ==
    LET day_name_lower == lower(day_name)
    IN  IF day_name_lower \in DOMAIN DAY_NAME_TO_WEEKDAY
        THEN LET target_weekday == DAY_NAME_TO_WEEKDAY[day_name_lower]
                 current_weekday == weekday(t)
                 days_ahead == target_weekday - current_weekday
             IN  Plus(t, (IF days_ahead <= 0 THEN days_ahead + DaysPerWeek
                          ELSE days_ahead) * SecondsPerDay)
        ELSE NoneT

\* ReminderTimeResolver.handle_relative_time(now, time_number, time_unit);
\* the ValueError of int() is caught and None is returned
handle_relative_time(t, time_number, time_unit) ==
    IF time_number \notin DOMAIN int THEN NoneT
    ELSE LET num == int[time_number]
             unit_lower == lower(time_unit)
         IN  IF unit_lower \in DOMAIN TIME_UNIT_TO_TIMEDELTA
             THEN Plus(t, TIME_UNIT_TO_TIMEDELTA[unit_lower] * num)
             ELSE NoneT

\* ReminderTimeResolver.handle_month_name_with_ordinal(now, month_name,
\* ordinal); the ValueError of int() on an ordinal without digits is raised,
\* the one of replace() is caught
handle_month_name_with_ordinal(t, month_name, ordinal) ==
    LET month_lower == lower(month_name)
    IN  IF month_lower \in DOMAIN MONTH_NAME_TO_NUMBER
        THEN IF OrdinalDigits(ordinal) \notin DOMAIN OrdinalInt THEN ValueError
             ELSE LET month_num == MONTH_NAME_TO_NUMBER[month_lower]
                      day_num == OrdinalInt[OrdinalDigits(ordinal)]
                      year == IF month_num < MonthOf(t)
                                 \/ (month_num = MonthOf(t) /\ day_num < DayOfMonth(t))
                              THEN YearOf(t) + 1 ELSE YearOf(t)
                      result_date == replace_date(year, month_num, day_num)
                  IN  IF result_date = ValueError THEN NoneT ELSE result_date
        ELSE NoneT

\* The text of the hour_number or minute_number slot: digits (ndigits of
\* them), optionally followed by ":MM" (minutes) and by a period suffix, or a
\* word; NoText is a slot that is not set (None).
TimeText(digits, ndigits, minutes, period) ==
    [digits |-> digits, ndigits |-> ndigits, minutes |-> minutes, period |-> period,
     word |-> ""]
WordText(w) ==
    [digits |-> Absent, ndigits |-> 0, minutes |-> Absent, period |-> "", word |-> w]
NoText == WordText(None)

\* re.match(TWENTY_FOUR_HOUR_FORMAT_REGEX, "{hour}:{minute}"): the pattern is
\* matched against that literal text, which is no f-string
TwentyFourHourMatch == FALSE

\* re.match(TWELVE_HOUR_FORMAT_REGEX, time_str), time_str being hour, or
\* hour ":" minute when minute is set: whether it matches, and its groups
TwelveHourMatch(hour, minute) ==
    IF minute.word # None
    THEN [ok |-> /\ hour.word = "" /\ hour.ndigits \in 1..2
                 /\ hour.minutes = Absent /\ hour.period = ""
                 /\ minute.word = "" /\ minute.ndigits = 2 /\ minute.minutes = Absent
                 /\ lower(minute.period) \in {"", "am", "pm"},
          hour |-> hour.digits, minute |-> minute.digits, period |-> lower(minute.period)]
    ELSE [ok |-> /\ hour.word = "" /\ hour.ndigits \in 1..2
                 /\ lower(hour.period) \in {"", "am", "pm"},
          hour |-> hour.digits, minute |-> hour.minutes, period |-> lower(hour.period)]

\* ReminderTimeResolver.parse_hour_and_minute(hour, minute): the pair
\* (hour, minute), Absent standing for None
parse_hour_and_minute(hour, minute) ==
    LET match == TwelveHourMatch(hour, minute)
    IN  IF minute.word # None /\ TwentyFourHourMatch
        THEN [hour |-> hour.digits, minute |-> minute.digits]
        ELSE IF match.ok
        THEN [hour |-> IF match.period = "pm" /\ match.hour # 12 THEN match.hour + 12
                       ELSE IF match.period = "am" /\ match.hour = 12 THEN 0
                       ELSE match.hour,
              minute |-> match.minute]
        ELSE IF lower(hour.word) \in {"noon", "midday"} THEN [hour |-> 12, minute |-> 0]
        ELSE IF lower(hour.word) = "midnight" THEN [hour |-> 0, minute |-> 0]
        ELSE [hour |-> Absent, minute |-> Absent]

\* ReminderTimeResolver.apply_time_of_day up to its comparison with now: the
\* refined timestamp, or ValueError when replace() raises; t2 is the reading
\* of dt_util.now() that stands in for UNSET_DATE
refine_time_of_day(result_date, time_period, hour_number, minute_number, t2) ==
    LET r0 == IF DayOf(result_date) = DayOf(UNSET_DATE) THEN t2 ELSE result_date
        parsed == parse_hour_and_minute(hour_number, minute_number)
    IN  IF Truthy(time_period)
        THEN IF lower(time_period) \in DOMAIN TIME_PERIOD_TO_HOUR
             THEN replace_time(r0, TIME_PERIOD_TO_HOUR[lower(time_period)], 0)
             ELSE r0
        ELSE IF hour_number.word # None
        THEN IF parsed.hour # Absent /\ parsed.hour # 0
             THEN replace_time(r0, parsed.hour,
                               IF parsed.minute = Absent THEN 0 ELSE parsed.minute)
             ELSE r0
        ELSE replace_time(r0, DefaultHour, 0)

\* variant of apply_time_of_day: the refined timestamp is returned as it is
apply_time_of_day_as_refined(result_date, time_period, hour_number, minute_number, t2, t3) ==
    refine_time_of_day(result_date, time_period, hour_number, minute_number, t2)

\* ReminderTimeResolver.apply_time_of_day(result_date, time_period,
\* hour_number, minute_number); t2 and t3 are its two readings of
\* dt_util.now()
apply_time_of_day(result_date, time_period, hour_number, minute_number, t2, t3) ==
    LET r1 == refine_time_of_day(result_date, time_period, hour_number, minute_number, t2)
    IN  IF r1 = ValueError THEN ValueError
        ELSE IF r1.v < t3.v THEN Plus(r1, SecondsPerDay)
        ELSE r1

\* ReminderTimeResolver.is_in_relative_minutes(time_number, time_unit)
is_in_relative_minutes(time_number, time_unit) ==
    /\ time_number # None
    /\ time_unit # None
    /\ time_unit \in {"minute", "hour", "minutes", "hours"}

\* ReminderIntentHandlerBase.parse_due_from_slots(intent_obj): the datetime
\* it returns, or ValueError when it raises; t is its reading of
\* dt_util.now(), t2 and t3 are the later readings of apply_time_of_day
parse_due_from_slots(slots, t, t2, t3) ==
    LET d0 == IF Truthy(slots.relative_day)
              THEN handle_relative_day(t, slots.relative_day)
              ELSE IF Truthy(slots.day_name)
              THEN handle_day_name(t, slots.day_name)
              ELSE IF Truthy(slots.time_number) /\ Truthy(slots.time_unit)
              THEN handle_relative_time(t, slots.time_number, slots.time_unit)
              ELSE IF Truthy(slots.month_name) /\ Truthy(slots.ordinal)
              THEN handle_month_name_with_ordinal(t, slots.month_name, slots.ordinal)
              ELSE UNSET_DATE
        result_date == IF d0 = NoneT THEN Plus(t, SecondsPerDay) ELSE d0
    IN  IF d0 = ValueError THEN ValueError
        ELSE IF ~is_in_relative_minutes(slots.time_number, slots.time_unit)
        THEN apply_time_of_day(result_date, slots.time_period, slots.hour_number,
                               slots.minute_number, t2, t3)
        ELSE result_date

----------------------------------------------------------------------------
(* SpecResolve: parse_due_from_slots applied to the slots of an intent *)

MaxResolverDay == 6      \* days after BaseYear-01-01 the clock is read on

\* the clock readings of dt_util.now(): every weekday, before and at 09:00,
\* in the afternoon, after 21:00 and in the last second of the day
ResolverClocks ==
    {8 * SecondsPerHour + 15 * SecondsPerMinute + 20,
     9 * SecondsPerHour,
     14 * SecondsPerHour + 30 * SecondsPerMinute,
     21 * SecondsPerHour + 40 * SecondsPerMinute + 10,
     SecondsPerDay - 1}

ResolverNows ==
    {Datetime(d * SecondsPerDay + c) : d \in 0..MaxResolverDay, c \in ResolverClocks}

\* a later reading of the clock is the same second or the next one
Later(t) == {t, Plus(t, 1)}

NoSlots ==
    [relative_day |-> None, day_name |-> None, time_number |-> None, time_unit |-> None,
     month_name |-> None, ordinal |-> None,
     time_period |-> None, hour_number |-> NoText, minute_number |-> NoText]

\* the slots that name the date: one group, none, or two groups at once
DateSlots ==
    {[NoSlots EXCEPT !.relative_day = r] :
        r \in {"today", "tomorrow", "Tomorrow", "tonight", "next week", "this week",
               "this weekend", "next weekend", "someday"}}
    \cup {[NoSlots EXCEPT !.day_name = n] :
        n \in DOMAIN DAY_NAME_TO_WEEKDAY \cup {"Monday", "someday"}}
    \cup {[NoSlots EXCEPT !.time_number = n, !.time_unit = u] :
        n \in {"1", "2", "two"},
        u \in DOMAIN TIME_UNIT_TO_TIMEDELTA \cup {"Minutes", "fortnight"}}
    \cup {[NoSlots EXCEPT !.month_name = mo, !.ordinal = o] :
        mo \in {"jan", "february", "december", "smarch"},
        o \in {"1st", "3rd", "31st", "first"}}
    \cup {NoSlots,
          [NoSlots EXCEPT !.relative_day = "tomorrow", !.day_name = "fri"],
          [NoSlots EXCEPT !.relative_day = "tomorrow", !.time_number = "2", !.time_unit = "hours"],
          [NoSlots EXCEPT !.day_name = "fri", !.time_number = "2", !.time_unit = "hours"],
          [NoSlots EXCEPT !.day_name = "fri", !.month_name = "december", !.ordinal = "1st"],
          [NoSlots EXCEPT !.time_number = "2", !.time_unit = "days",
                          !.month_name = "december", !.ordinal = "1st"]}

\* the slots that name the time of day
TimeSlots ==
    {[time_period |-> p, hour_number |-> NoText, minute_number |-> NoText] :
        p \in {None, "morning", "afternoon", "Evening", "night", "later"}}
    \cup {[time_period |-> None, hour_number |-> h, minute_number |-> NoText] :
        h \in {TimeText(3, 1, Absent, "pm"), TimeText(12, 2, Absent, "am"),
               TimeText(12, 2, Absent, "pm"), TimeText(7, 1, 30, "PM"),
               TimeText(15, 2, 0, ""), TimeText(25, 2, Absent, ""),
               WordText("noon"), WordText("midnight"), WordText("teatime")}}
    \cup {[time_period |-> None, hour_number |-> TimeText(15, 2, Absent, ""),
           minute_number |-> TimeText(30, 2, Absent, "")],
          [time_period |-> None, hour_number |-> TimeText(3, 1, Absent, "pm"),
           minute_number |-> TimeText(30, 2, Absent, "")],
          [time_period |-> "morning", hour_number |-> TimeText(3, 1, Absent, "pm"),
           minute_number |-> NoText]}

SlotInputs ==
    {[d EXCEPT !.time_period = tod.time_period, !.hour_number = tod.hour_number,
               !.minute_number = tod.minute_number] : d \in DateSlots, tod \in TimeSlots}

\* an intent has been matched: its slots and the clock readings to come
InitResolve ==
    /\ now = StartTime
    /\ reminders = <<>>
    /\ stored = <<>>
    /\ reminder_items = [e \in Users |-> <<>>]
    /\ nextUid = 1
    /\ pending = <<>>
    /\ fired = <<>>
    /\ lastEmit = [u \in Uids |-> Never]
    /\ \E slots \in SlotInputs, t \in ResolverNows :
          \E t2 \in Later(t) : \E t3 \in Later(t2) :
             result = Outcome("intent", None, None, "ok",
                              <<[slots |-> slots, now |-> t, now2 |-> t2, now3 |-> t3]>>)
    /\ timers = <<TRUE>>
    /\ scheduler = 1

\* the handler of the intent resolves the due of the reminder
ParseDue ==
    /\ result.op = "intent"
    /\ LET inp == result.ret[1]
           due == parse_due_from_slots(inp.slots, inp.now, inp.now2, inp.now3)
       IN  result' = Outcome("parse_due", None, None,
                             IF due = ValueError THEN "ValueError" ELSE "ok",
                             <<[slots |-> inp.slots, now |-> inp.now, now2 |-> inp.now2,
                                now3 |-> inp.now3, due |-> due]>>)
    /\ fired' = <<>>
    /\ UNCHANGED <<now, reminders, stored, reminder_items, nextUid, pending,
                   lastEmit, timers, scheduler>>

NextResolve == ParseDue

SpecResolve == InitResolve /\ [][NextResolve]_vars

----------------------------------------------------------------------------
(* SpecForeign: the store file holds records whose user_id is not the    *)
(* owner of their list                                                    *)

ForeignShapes == {"good", "other user"}

InitForeign == InitLoaded(StoreFilesOf(ForeignShapes))

RemoveG ==
    \E e \in Users, uids \in UidLists :
        async_remove_reminder_items(e, OwnerCall(e), uids)

NextForeign == RemoveG \/ GetF \/ UpdateF

SpecForeign == InitForeign /\ [][NextForeign]_vars

----------------------------------------------------------------------------
(* SpecAuto: create, update and remove called by logged-in users and by *)
(* automations in the name of a user                                     *)

CreateA ==
    \E e \in Users, call \in LoggedInCalls \cup AutomationCalls,
       item \in CreateInputs({NoneT}) :
        async_create_reminder_item(e, call, item)

UpdateA ==
    \E e \in Users, call \in LoggedInCalls \cup AutomationCalls,
       item \in UpdateInputs({"bread"}, {Datetime(StartTime + HoursPerDay)}, {NoneT}) :
        async_update_reminder_item(e, call, item)

RemoveA ==
    \E e \in Users, call \in LoggedInCalls \cup AutomationCalls, u \in Uids :
        async_remove_reminder_items(e, call, <<u>>)

NextAuto == CreateA \/ UpdateA \/ RemoveA

SpecAuto == Init /\ [][NextAuto]_vars

----------------------------------------------------------------------------
(* SpecIsolation: every list called by every logged-in user *)

CreateI ==
    \E e \in Users, call \in LoggedInCalls, item \in CreateInputs({NoneT}) :
        async_create_reminder_item(e, call, item)

UpdateI ==
    \E e \in Users, call \in LoggedInCalls,
       item \in UpdateInputs({"bread"}, {Datetime(StartTime + HoursPerDay)}, {NoneT}) :
        async_update_reminder_item(e, call, item)

RemoveI ==
    \E e \in Users, call \in LoggedInCalls, u \in Uids :
        async_remove_reminder_items(e, call, <<u>>)

GetI ==
    \E e \in Users, call \in LoggedInCalls, uids \in {<<>>} \cup {<<u>> : u \in Uids} :
        async_get_reminder_items(e, call, uids)

NextIsolation == CreateI \/ UpdateI \/ RemoveI \/ GetI

SpecIsolation == Init /\ [][NextIsolation]_vars

----------------------------------------------------------------------------
(* Properties *)

\* the step just taken emitted a due event for uid u
Emitted(evs, u) == \E j \in 1..Len(evs) : evs[j].uid = u

\* C1: in every execution any two due events emitted for the same reminder
\* uid are at least 24 hours apart.
C1_EventsADayApart ==
    [][\A j \in 1..Len(fired') :
          LET u == fired'[j].uid
          IN  (u \in Uids /\ lastEmit[u] # Never) =>
                  now' - lastEmit[u] >= FireWindowHours]_vars

C4_LastFiredNeverGoesBack ==
    [][\A i \in 1..Len(reminders) :
          LET k == reminders[i].key
              old == reminders[i].rec
          IN  (k \in Keys(reminders') /\ old.last_fired # NoneT) =>
                  /\ DictGet(reminders', k).last_fired # NoneT
                  /\ DictGet(reminders', k).last_fired.v >= old.last_fired.v]_vars

\* C5: update leaves every field the caller did not supply unchanged: when
\* summary, due or lastFired is absent in the request, the stored value of
\* that field after the update equals its value before.
C5_AbsentFieldsKept ==
    [][(result'.op = "update" /\ result'.status = "ok" /\ result'.ret # <<>>) =>
          LET item == result'.ret[1]
              old == DictGet(reminders, item.uid)
              new == DictGet(reminders', item.uid)
          IN  /\ item.summary \in {None, ""} => new.summary = old.summary
              /\ item.due = NoneT => new.due = old.due
              /\ item.last_fired = NoneT => new.last_fired = old.last_fired]_vars

\* C6: the scheduler's write-back changes only lastFired: the reminder's
\* stored summary and due right after it equal what they were right before.
C6_WriteBackOnlyLastFired ==
    [][(result'.op = "writeback" /\ pending # <<>>) =>
          LET u == Head(pending).uid
          IN  (u \in Keys(reminders) /\ u \in Keys(reminders')) =>
                  /\ DictGet(reminders', u).summary = DictGet(reminders, u).summary
                  /\ DictGet(reminders', u).due = DictGet(reminders, u).due]_vars

\* C7: create, update or remove by an acting user other than the list's
\* owner fails with an authorization error and leaves the in-memory
\* collection and the persisted store as they were.
C7_NonOwnerRejected ==
    [][(result'.op \in {"create", "update", "remove"}
           /\ result'.ctx_uid # result'.entity) =>
          /\ result'.status = "Unauthorized"
          /\ reminders' = reminders
          /\ stored' = stored]_vars

\* another user's update of a list that holds reminders has been rejected
C7_Witness ==
    /\ result.op = "update"
    /\ result.status = "Unauthorized"
    /\ result.ctx_uid \in Users \ {result.entity}
    /\ \E i \in 1..Len(reminders) : reminders[i].rec.list_id = unique_id(result.entity)

\* C8: no update call and no scheduler write-back changes the listId or the
\* userId of a reminder: both keep their creation values until it is removed.
C8_OwnershipImmutable ==
    [][\A i \in 1..Len(reminders) :
          LET k == reminders[i].key
              old == reminders[i].rec
          IN  k \in Keys(reminders') =>
                  /\ DictGet(reminders', k).list_id = old.list_id
                  /\ DictGet(reminders', k).user_id = old.user_id]_vars

\* a write-back has rewritten a reminder that an update call rewrote before;
\* it is still in its owner's list
C8_Witness ==
    /\ result.op = "writeback"
    /\ result.status = "ok"
    /\ result.ret # <<>>
    /\ LET r == DictGet(reminders, result.ret[1].uid)
       IN  /\ r.summary = "bread"
           /\ r.user_id \in Users
           /\ r.list_id = unique_id(r.user_id)

\* C9: no two reminders of the collection share a uid, across all lists, and
\* every record is stored under the key equal to its own id.
C9_UidsUnique ==
    \A i, j \in 1..Len(reminders) :
        /\ reminders[i].key = reminders[i].rec.id
        /\ reminders[i].rec.id = reminders[j].rec.id => i = j

\* two reminders in two lists, one of them rewritten by an update
C9_Witness ==
    /\ Len(reminders) = 2
    /\ reminders[1].rec.list_id # reminders[2].rec.list_id
    /\ result.op = "update"
    /\ result.status = "ok"
    /\ result.ret # <<>>

\* C10: add_item with no due on a fresh list stores a reminder whose due is
\* the day after now at 09:00 and whose lastFired is null, and a following
\* get_items by the owner returns exactly one entry, with that id.
C10_DefaultDueNextDayAtNine ==
    [][(result'.op = "create" /\ result'.status = "ok" /\ reminders = <<>>
           /\ result'.ret[1].due = NoneT) =>
          LET got == get_reminder_items(reminders', result'.entity, result'.entity, <<>>)
          IN  /\ Len(reminders') = 1
              /\ reminders'[1].rec.due = IsoDt(((now \div 24) + 1) * 24 + 9)
              /\ reminders'[1].rec.last_fired = NoneT
              /\ got.status = "ok"
              /\ Len(got.items) = 1
              /\ got.items[1].uid = reminders'[1].rec.id]_vars

\* C11: for every due value D supplied to create, a later get of the created
\* uid by the owner returns an item whose due equals normalize(D), as long as
\* no update or remove of that uid happened in between: create establishes
\* it, and every step other than an update or a remove keeps what get returns.
C11_CreateGetRoundTrip ==
    [][/\ (result'.op = "create" /\ result'.status = "ok") =>
              LET D == result'.ret[1].due
                  u == Uid(nextUid)
                  normalized == IF D.kind = "datetime" THEN D
                                ELSE IF D.kind = "date"
                                     THEN Datetime(D.v * 24 + 9)
                                ELSE Datetime(now + 24)
                  got == get_reminder_items(reminders', result'.entity,
                                            result'.ctx_uid, <<u>>)
              IN  /\ got.status = "ok"
                  /\ Len(got.items) = 1
                  /\ got.items[1].uid = u
                  /\ got.items[1].due = normalized
       /\ (result'.op \notin {"update", "writeback", "remove"}) =>
              \A i \in 1..Len(reminders) :
                  LET k == reminders[i].key
                      owner == reminders[i].rec.user_id
                  IN  get_reminder_items(reminders', owner, owner, <<k>>)
                          = get_reminder_items(reminders, owner, owner, <<k>>)]_vars

\* a get of one uid, after a second reminder was created, has returned the
\* reminder that was created from a date: its due is 09:00 of that day
C11_Witness ==
    /\ result.op = "get"
    /\ result.status = "ok"
    /\ Len(reminders) = 2
    /\ Len(result.ret) = 1
    /\ result.ret[1].uid = reminders[1].key
    /\ result.ret[1].due = Datetime((StartTime \div 24) * 24 + 9)

\* C12: remove_item by the owner with a uids list that mixes uids that exist
\* in the list and uids that do not removes every existing one from the
\* collection, ignores the missing ones and completes without error (and
\* persists what is left).
C12_RemoveMixedUids ==
    [][\A e \in Users, uids \in UidLists :
          LET InList(u) == \E i \in 1..Len(reminders) :
                               /\ reminders[i].key = u
                               /\ reminders[i].rec.list_id = unique_id(e)
              named == {uids[i] : i \in 1..Len(uids)}
              existing == {u \in named : InList(u)}
              Stays(en) == en.key \notin existing
          IN  ( /\ existing # {}
                /\ named \ existing # {}
                /\ async_remove_reminder_items(e, OwnerCall(e), uids) ) =>
                  /\ result'.status = "ok"
                  /\ reminders' = SelectSeq(reminders, Stays)
                  /\ stored' = reminders']_vars

\* a remove of two uids has found one of them and not the other, and
\* neither is in the collection now
C12_Witness ==
    /\ result.op = "remove"
    /\ result.status = "ok"
    /\ Len(result.ret) = 2
    /\ result.ret[1].found
    /\ ~result.ret[2].found
    /\ result.ret[1].uid \notin Keys(reminders)
    /\ result.ret[2].uid \notin Keys(reminders)

\* C13: get called by the list owner with a uids list, the empty list
\* included, returns exactly the list's reminders whose uid occurs in uids, in
\* the order of uids, skipping uids that are not found.  (<<>> is the empty
\* list here; the code cannot tell it from no list and returns every reminder
\* of the caller, which is what the claim says for a call without uids.)
C13_GetReturnsNamedUids ==
    [][\A e \in Users, uids \in GetUidLists :
          LET InList(u) == \E i \in 1..Len(reminders) :
                               /\ reminders[i].key = u
                               /\ reminders[i].rec.list_id = unique_id(e)
              expected == SelectSeq(uids, InList)
          IN  async_get_reminder_items(e, OwnerCall(e), uids) =>
                  /\ result'.status = "ok"
                  /\ Len(result'.ret) = Len(expected)
                  /\ \A i \in 1..Len(expected) : result'.ret[i].uid = expected[i]]_vars

\* C14: the scheduler is Idle or Polling; for any sequence of setups and
\* unloads of config entries (start and stop calls), once stop has returned
\* no poll tick evaluates the reminders until the next start: a tick happens
\* only while the scheduler of hass.data is started.
C14_NoTickWhenIdle ==
    [][result'.op = "tick" => scheduler # 0]_vars

\* C15: within one poll tick a parse failure on one reminder does not keep
\* the other reminders of the collection from being evaluated: every stored
\* reminder that parses and is due and fireable is fired by the tick.
C15_TickIsolatesFailures ==
    [][result'.op = "tick" =>
          \A i \in 1..Len(reminders) :
              LET r == reminders[i].rec
              IN  ( /\ r.id # None
                    /\ r.due.kind = "isodt"
                    /\ r.due.v <= now
                    /\ r.last_fired = NoneT ) => Emitted(fired', r.id)]_vars

\* C16: loading the collection for get, update or remove never fails because
\* of a malformed record (no or unparseable due, no id) in any list: the
\* operation of a list owner proceeds without error, and a get without uids
\* returns the well-formed reminders of the caller's list.
C16_LoadSkipsMalformed ==
    [][(result'.op \in {"get", "update", "remove"}
           /\ result'.ctx_uid = result'.entity) =>
          /\ result'.status = "ok"
          /\ \A e \in Users :
                 async_get_reminder_items(e, OwnerCall(e), <<>>) =>
                     LET WellFormed(en) == /\ en.rec.id # None
                                           /\ en.rec.due.kind = "isodt"
                                           /\ en.rec.list_id = unique_id(e)
                         expected == SelectSeq(reminders, WellFormed)
                     IN  /\ Len(result'.ret) = Len(expected)
                         /\ \A i \in 1..Len(expected) :
                                result'.ret[i].uid = expected[i].rec.id]_vars

\* C17: while the scheduler polls and ticks keep occurring, every reminder
\* that stays in the collection with due <= now and no last_fired is
\* eventually fired (or stops being such a reminder).
DueUnfired(u) ==
    \E i \in 1..Len(reminders) :
        LET r == reminders[i].rec
        IN  /\ r.id = u
            /\ r.due.kind = "isodt"
            /\ r.due.v <= now
            /\ r.last_fired = NoneT

C17_DueEventuallyFired ==
    \A u \in Uids : DueUnfired(u) ~> (Emitted(fired, u) \/ ~DueUnfired(u))

\* C18: for every date-only input (a date value, or an ISO date string
\* without time part) normalize_date returns that day at 09:00:00; an input
\* with a time component is returned with its time unchanged.
C18_DateOnlyAtNine ==
    [][result'.op = "normalize_date" =>
          LET x == result'.ret[1].due_date
              ret == result'.ret[1].ret
          IN  /\ x.kind \in {"date", "isod"} =>
                     ret = Datetime(x.v * HoursPerDay + DefaultHour)
              /\ x.kind \in {"datetime", "isodt"} => ret = Datetime(x.v)]_vars

\* C19: for every now and every recognised weekday name or abbreviation,
\* resolving day_name yields a date on that weekday, 1 to 7 days after
\* today; when today is that weekday the result is 7 days later.
C19_DayNameNextOccurrence ==
    [][(/\ result'.op = "parse_due"
        /\ result'.status = "ok"
        /\ ~Truthy(result'.ret[1].slots.relative_day)
        /\ result'.ret[1].slots.day_name \in DOMAIN DAY_NAME_TO_WEEKDAY) =>
          LET r == result'.ret[1]
              target == DAY_NAME_TO_WEEKDAY[r.slots.day_name]
              ahead == DayOf(r.due) - DayOf(r.now)
          IN  /\ weekday(r.due) = target
              /\ ahead \in 1..DaysPerWeek
              /\ weekday(r.now) = target => ahead = DaysPerWeek]_vars

\* a day name resolved on its own weekday, to the day a week later
C19_Witness ==
    /\ result.op = "parse_due"
    /\ result.status = "ok"
    /\ result.ret[1].slots.day_name = "mon"
    /\ weekday(result.ret[1].now) = 0
    /\ DayOf(result.ret[1].due) = DayOf(result.ret[1].now) + DaysPerWeek

\* C20: when time_number and time_unit are set and neither relative_day nor
\* day_name is, the resolved due is exactly now + count x unit, for every
\* unit among minute, hour, day and week (singular or plural): no
\* time-of-day refinement is applied.
C20_RelativeTimeExact ==
    [][(/\ result'.op = "parse_due"
        /\ ~Truthy(result'.ret[1].slots.relative_day)
        /\ ~Truthy(result'.ret[1].slots.day_name)
        /\ result'.ret[1].slots.time_number \in DOMAIN int
        /\ result'.ret[1].slots.time_unit \in DOMAIN TIME_UNIT_TO_TIMEDELTA) =>
          LET r == result'.ret[1]
          IN  r.due = Plus(r.now, int[r.slots.time_number]
                                  * TIME_UNIT_TO_TIMEDELTA[r.slots.time_unit])]_vars

\* C21: relative_day = "tonight" with no time-of-day slot resolves to today at
\* 21:00 when now is before 21:00, and to tomorrow at 21:00 when now is past
\* 21:00 (21:01 to 21:59 included).
C21_TonightAtTwentyOne ==
    [][(/\ result'.op = "parse_due"
        /\ result'.ret[1].slots = [NoSlots EXCEPT !.relative_day = "tonight"]) =>
          LET r == result'.ret[1]
              clock == r.now.v % SecondsPerDay
              nine_pm == 21 * SecondsPerHour
          IN  /\ clock < nine_pm =>
                     r.due = Datetime(DayOf(r.now) * SecondsPerDay + nine_pm)
              /\ clock > nine_pm =>
                     r.due = Datetime((DayOf(r.now) + 1) * SecondsPerDay + nine_pm)]_vars

\* C22: month_name + ordinal (no higher-priority date slot) resolve to a
\* timestamp on exactly that month and day, in the current year when the date
\* has not already passed and in the next year otherwise, at 09:00 unless a
\* time-of-day slot refines it.
C22_MonthAndOrdinal ==
    [][(/\ result'.op = "parse_due"
        /\ ~Truthy(result'.ret[1].slots.relative_day)
        /\ ~Truthy(result'.ret[1].slots.day_name)
        /\ ~Truthy(result'.ret[1].slots.time_number)
        /\ result'.ret[1].slots.month_name \in DOMAIN MONTH_NAME_TO_NUMBER
        /\ OrdinalDigits(result'.ret[1].slots.ordinal) \in DOMAIN OrdinalInt
        /\ result'.status = "ok") =>
          LET r == result'.ret[1]
              mo == MONTH_NAME_TO_NUMBER[r.slots.month_name]
              d == OrdinalInt[OrdinalDigits(r.slots.ordinal)]
              passed == mo < MonthOf(r.now) \/ (mo = MonthOf(r.now) /\ d < DayOfMonth(r.now))
              y == IF passed THEN YearOf(r.now) + 1 ELSE YearOf(r.now)
          IN  d <= DaysInMonth(y, mo) =>
                  /\ YearOf(r.due) = y
                  /\ MonthOf(r.due) = mo
                  /\ DayOfMonth(r.due) = d
                  /\ (r.slots.time_period = None /\ r.slots.hour_number = NoText) =>
                         r.due.v % SecondsPerDay = DefaultHour * SecondsPerHour]_vars

\* C23: time-of-day refinement with hour_number (and no time_period) sets the
\* clock of the result to the parsed time for every supported form: 12-hour
\* with am/pm (12am = 00, 12pm = 12, 1pm..11pm = 13..23), "noon"/"midday" =
\* 12:00, "midnight" = 00:00, and 24-hour "H:MM"; seconds are zero.
C23_HourNumberSetsClock ==
    [][(/\ result'.op = "parse_due"
        /\ result'.status = "ok"
        /\ ~Truthy(result'.ret[1].slots.time_period)
        /\ result'.ret[1].slots.minute_number = NoText
        /\ ~is_in_relative_minutes(result'.ret[1].slots.time_number,
                                   result'.ret[1].slots.time_unit)) =>
          LET r == result'.ret[1]
              h == r.slots.hour_number
              clock == r.due.v % SecondsPerDay
              At(hh, mm) == clock = hh * SecondsPerHour + mm * SecondsPerMinute
              mins == IF h.minutes = Absent THEN 0 ELSE h.minutes
          IN  /\ (h.word = "" /\ h.period = "pm" /\ h.digits \in 1..12) =>
                     At(IF h.digits = 12 THEN 12 ELSE h.digits + 12, mins)
              /\ (h.word = "" /\ h.period = "am" /\ h.digits \in 1..12) =>
                     At(IF h.digits = 12 THEN 0 ELSE h.digits, mins)
              /\ (h.word = "" /\ h.period = "" /\ h.digits \in 0..23 /\ h.minutes # Absent) =>
                     At(h.digits, mins)
              /\ h.word \in {"noon", "midday"} => At(12, 0)
              /\ h.word = "midnight" => At(0, 0)]_vars

\* the date parse_due_from_slots hands to the time-of-day refinement, and the
\* refined timestamp before its comparison with now
RefinedOf(r) ==
    LET s == r.slots
        d0 == IF Truthy(s.relative_day) THEN handle_relative_day(r.now, s.relative_day)
              ELSE IF Truthy(s.day_name) THEN handle_day_name(r.now, s.day_name)
              ELSE IF Truthy(s.time_number) /\ Truthy(s.time_unit)
              THEN handle_relative_time(r.now, s.time_number, s.time_unit)
              ELSE IF Truthy(s.month_name) /\ Truthy(s.ordinal)
              THEN handle_month_name_with_ordinal(r.now, s.month_name, s.ordinal)
              ELSE UNSET_DATE
    IN  refine_time_of_day(IF d0 = NoneT THEN Plus(r.now, SecondsPerDay) ELSE d0,
                           s.time_period, s.hour_number, s.minute_number, r.now2)

\* C24: for every slot combination that goes through the time-of-day
\* refinement, a refined timestamp that lies before now is advanced by
\* exactly one day and one that does not is left as it is, and the resolved
\* due is never earlier than now.
C24_PastAdvancedOneDay ==
    [][(/\ result'.op = "parse_due"
        /\ result'.status = "ok"
        /\ ~is_in_relative_minutes(result'.ret[1].slots.time_number,
                                   result'.ret[1].slots.time_unit)) =>
          LET r == result'.ret[1]
              refined == RefinedOf(r)
          IN  /\ r.due.v >= r.now.v
              /\ r.due.v >= r.now3.v
              /\ refined.v < r.now.v => r.due = Plus(refined, SecondsPerDay)
              /\ refined.v >= r.now3.v => r.due = refined]_vars

\* "today" in the "morning", asked at 14:30: 09:00 today is past and the due
\* is 09:00 tomorrow
C24_Witness ==
    /\ result.op = "parse_due"
    /\ result.ret[1].slots = [NoSlots EXCEPT !.relative_day = "today", !.time_period = "morning"]
    /\ result.ret[1].now.v % SecondsPerDay = 14 * SecondsPerHour + 30 * SecondsPerMinute
    /\ result.ret[1].due =
           Datetime((DayOf(result.ret[1].now) + 1) * SecondsPerDay + 9 * SecondsPerHour)

\* C25: when no date slot is populated (no relative_day, no day_name, no
\* time_number + time_unit, no month_name + ordinal) the resolved due falls
\* on the calendar day of now + 1 day, for every now.
C25_NoDateSlotNextDay ==
    [][(/\ result'.op = "parse_due"
        /\ result'.status = "ok"
        /\ ~Truthy(result'.ret[1].slots.relative_day)
        /\ ~Truthy(result'.ret[1].slots.day_name)
        /\ ~(Truthy(result'.ret[1].slots.time_number) /\ Truthy(result'.ret[1].slots.time_unit))
        /\ ~(Truthy(result'.ret[1].slots.month_name) /\ Truthy(result'.ret[1].slots.ordinal))) =>
          DayOf(result'.ret[1].due) = DayOf(result'.ret[1].now) + 1]_vars

\* the slots with only the date group of highest priority left populated:
\* relative_day, then day_name, then time_number + time_unit, then
\* month_name + ordinal
HighestOnly(s) ==
    IF Truthy(s.relative_day)
    THEN [s EXCEPT !.day_name = None, !.time_number = None, !.time_unit = None,
                   !.month_name = None, !.ordinal = None]
    ELSE IF Truthy(s.day_name)
    THEN [s EXCEPT !.time_number = None, !.time_unit = None,
                   !.month_name = None, !.ordinal = None]
    ELSE IF Truthy(s.time_number) /\ Truthy(s.time_unit)
    THEN [s EXCEPT !.month_name = None, !.ordinal = None]
    ELSE s

\* C26: the date source is picked in strict priority relative_day, day_name,
\* time_number + time_unit, month_name + ordinal: when several groups are
\* populated the resolved due equals the one obtained with only the
\* highest-priority populated group and the same time-of-day slots.
C26_StrictPriority ==
    [][result'.op = "parse_due" =>
          LET r == result'.ret[1]
          IN  r.due = parse_due_from_slots(HighestOnly(r.slots), r.now, r.now2, r.now3)]_vars

\* the time of day, in seconds, that an hour_number text of a supported form
\* stands for: 12-hour with am or pm, noon, midday, midnight, 24-hour H:MM
SupportedClock(h) ==
    LET mins == IF h.minutes = Absent THEN 0 ELSE h.minutes
        hh == IF h.word \in {"noon", "midday"} THEN 12
              ELSE IF h.word = "midnight" THEN 0
              ELSE IF h.period = "pm" THEN (IF h.digits = 12 THEN 12 ELSE h.digits + 12)
              ELSE IF h.period = "am" THEN (IF h.digits = 12 THEN 0 ELSE h.digits)
              ELSE h.digits
    IN  hh * SecondsPerHour + mins * SecondsPerMinute

IsSupported(h) ==
    \/ h.word \in {"noon", "midday", "midnight"}
    \/ h.word = "" /\ h.period \in {"am", "pm"} /\ h.digits \in 1..12
    \/ h.word = "" /\ h.period = "" /\ h.digits \in 0..23 /\ h.minutes # Absent

\* C27: for every now, relative_day = "tomorrow" resolves to a timestamp whose
\* date is the date of now + 1 day and whose time of day is the one set by
\* the refinement: the time_period hour, the parsed hour_number, or 09:00 by
\* default.
C27_TomorrowDateAndClock ==
    [][(/\ result'.op = "parse_due"
        /\ result'.status = "ok"
        /\ result'.ret[1].slots.relative_day = "tomorrow"
        /\ HighestOnly(result'.ret[1].slots) = result'.ret[1].slots
        /\ result'.ret[1].slots.minute_number = NoText) =>
          LET r == result'.ret[1]
              clock == r.due.v % SecondsPerDay
              p == r.slots.time_period
              h == r.slots.hour_number
          IN  /\ DayOf(r.due) = DayOf(r.now) + 1
              /\ p \in DOMAIN TIME_PERIOD_TO_HOUR =>
                     clock = TIME_PERIOD_TO_HOUR[p] * SecondsPerHour
              /\ (p = None /\ IsSupported(h)) => clock = SupportedClock(h)
              /\ (p = None /\ h = NoText) => clock = DefaultHour * SecondsPerHour]_vars

\* C28: the acting user of create, update and remove is resolved the same
\* way, the context user or else the user an automation-triggered call names:
\* an automation-triggered call without context user that names the owner of
\* the list is authorized for each of the three operations.
C28_AutomationOwnerAuthorized ==
    [][\A e \in Users, call \in AutomationCalls :
          (/\ call.user = UserName(e)
           /\ \/ \E item \in CreateInputs({NoneT}) :
                     async_create_reminder_item(e, call, item)
              \/ \E item \in UpdateInputs({"bread"}, {Datetime(StartTime + HoursPerDay)}, {NoneT}) :
                     async_update_reminder_item(e, call, item)
              \/ \E u \in Uids : async_remove_reminder_items(e, call, <<u>>))
          => result'.status # "Unauthorized"]_vars

\* C29: remove of a uid that is found in the list but whose record is owned
\* by a user other than the caller skips that uid silently: no error is
\* raised, the record stays in the collection, and the other uids of the call
\* are still processed and what is left is persisted.
C29_RemoveSkipsForeign ==
    [][\A e \in Users, uids \in UidLists :
          LET InList(u) == \E i \in 1..Len(reminders) :
                               /\ reminders[i].key = u
                               /\ reminders[i].rec.list_id = unique_id(e)
              Foreign(u) == \E i \in 1..Len(reminders) :
                               /\ reminders[i].key = u
                               /\ reminders[i].rec.list_id = unique_id(e)
                               /\ reminders[i].rec.user_id # e
              named == {uids[i] : i \in 1..Len(uids)}
          IN  (/\ \E u \in named : Foreign(u)
               /\ async_remove_reminder_items(e, OwnerCall(e), uids)) =>
                  /\ result'.status = "ok"
                  /\ \A u \in named : Foreign(u) => u \in Keys(reminders')
                  /\ \A u \in named : (InList(u) /\ ~Foreign(u)) => u \notin Keys(reminders')
                  /\ stored' = reminders']_vars

\* C30: update by the list owner of a uid that is not in that list (absent
\* from the collection, or present only in another list) is a silent no-op:
\* no error is raised and the in-memory collection and the persisted store
\* are unchanged.
C30_UpdateAbsentIsNoOp ==
    [][\A e \in Users,
          item \in UpdateInputs({"bread"}, {Datetime(StartTime + HoursPerDay)}, {NoneT}) :
          LET InList(u) == \E i \in 1..Len(reminders) :
                               /\ reminders[i].key = u
                               /\ reminders[i].rec.list_id = unique_id(e)
          IN  (/\ ~InList(item.uid)
               /\ async_update_reminder_item(e, OwnerCall(e), item)) =>
                  /\ result'.status = "ok"
                  /\ reminders' = reminders
                  /\ stored' = stored
                  /\ reminder_items' = reminder_items]_vars

\* alice has updated a uid on her list while every uid there is was held in
\* bob's list: nothing was written
C30_Witness ==
    /\ result.op = "update"
    /\ result.status = "ok"
    /\ result.entity = "alice"
    /\ result.ctx_uid = "alice"
    /\ result.ret = <<>>
    /\ Len(reminders) = MaxUids
    /\ \A i \in 1..Len(reminders) : reminders[i].rec.list_id = unique_id("bob")

\* the uid was handed out to a reminder that is no longer in the collection
Removed(u) == (\E n \in 1..(nextUid - 1) : u = Uid(n)) /\ u \notin Keys(reminders)

C32_StopKeepsWriteBacks ==
    /\ (pending # <<>>) ~> (pending = <<>>)
    /\ [][/\ result'.op = "unload" => pending' = pending
          /\ result'.op = "setup" => (reminders' = stored /\ pending' = pending)
          /\ result'.op = "writeback" =>
                 LET u == Head(pending).uid
                 IN  /\ pending' = Tail(pending)
                     /\ lastEmit[u] # Never
                     /\ u \in Keys(reminders) =>
                            /\ DictGet(reminders', u).last_fired = IsoDt(lastEmit[u])
                            /\ DictGet(stored', u).last_fired = IsoDt(lastEmit[u])
                     /\ u \notin Keys(reminders) => u \notin Keys(reminders')
          /\ (result'.op = "tick" /\ Len(timers) > 1) =>
                 \A i \in 1..Len(reminders) :
                     LET r == reminders[i].rec
                     IN  ( /\ lastEmit[r.id] # Never
                           /\ r.last_fired = IsoDt(lastEmit[r.id])
                           /\ now - lastEmit[r.id] < FireWindowHours )
                             => ~Emitted(fired', r.id)]_vars

\* the write-back of a firing has been applied while the scheduler was
\* stopped: no timer armed, no scheduler in hass.data
C32_Witness ==
    /\ result.op = "writeback"
    /\ result.status = "ok"
    /\ result.ret # <<>>
    /\ scheduler = 0
    /\ \A i \in 1..Len(timers) : ~timers[i]
    /\ DictGet(stored, result.ret[1].uid).last_fired = IsoDt(lastEmit[result.ret[1].uid])

\* C33: a reminder removed after it fired but before the scheduler's pending
\* lastFired write-back is applied stays removed: the write-back finds no
\* record, ends without error, and leaves the in-memory collection, the
\* entities' items and the store as they were.
C33_WriteBackAfterRemoveIsNoOp ==
    [][(result'.op = "writeback" /\ Head(pending).uid \notin Keys(reminders)) =>
          /\ result'.status = "ok"
          /\ Head(pending).uid \notin Keys(reminders')
          /\ Head(pending).uid \notin Keys(stored')
          /\ reminders' = reminders
          /\ stored' = stored
          /\ reminder_items' = reminder_items]_vars

\* the write-back of a reminder that fired and was removed since has run
\* and has written nothing
C33_Witness ==
    /\ result.op = "writeback"
    /\ result.status = "ok"
    /\ result.ret = <<>>
    /\ \E u \in Uids : Removed(u) /\ lastEmit[u] # Never /\ u \notin Keys(stored)

\* C34: whenever no operation is in flight, the mapping last passed to the
\* store's save equals the in-memory reminder collection.
C34_StoreEqualsMemory == stored = reminders

\* C35: a remove or update call that ends in an error leaves the in-memory
\* collection equal to what it was before the call.
C35_FailedCallLeavesMemory ==
    [][(result'.op \in {"remove", "update"} /\ result'.status # "ok") =>
          reminders' = reminders]_vars

\* C36: remove_item by the owner whose uids list names the same existing uid
\* more than once removes that reminder, completes without error, and
\* persists the resulting collection.
C36_RemoveDuplicateUid ==
    [][\A e \in Users, u \in Uids :
          (/\ u \in Keys(reminders)
           /\ DictGet(reminders, u).list_id = unique_id(e)
           /\ async_remove_reminder_items(e, OwnerCall(e), <<u, u>>)) =>
              /\ result'.status = "ok"
              /\ u \notin Keys(reminders')
              /\ stored' = reminders']_vars

\* the records of the list of user b in the collection d, in order
ListOf(d, b) == SelectSeq(d, LAMBDA en : en.rec.list_id = unique_id(b))

\* C37: no create, update, remove or get call made by a user other than b
\* changes, removes or returns a reminder of b's list: after every such call
\* the records of b's list, the items of b's entity and the result of b's
\* get are what they were before it, and a get of the caller returns no item
\* of b's list.
C37_ListsIsolated ==
    [][\A b \in Users :
          (result'.op \in {"create", "update", "remove", "get"}
              /\ result'.ctx_uid # b) =>
             /\ ListOf(reminders', b) = ListOf(reminders, b)
             /\ reminder_items'[b] = reminder_items[b]
             /\ \A uids \in {<<>>} \cup {<<u>> : u \in Uids} :
                    get_reminder_items(reminders', b, b, uids)
                        = get_reminder_items(reminders, b, b, uids)
             /\ result'.op = "get" =>
                    \A i \in 1..Len(result'.ret) :
                        result'.ret[i].list_id # unique_id(b)]_vars

\* alice's get on bob's list, naming a reminder of bob's, has been refused
C37_Witness ==
    /\ result.op = "get"
    /\ result.ctx_uid = "alice"
    /\ result.entity = "bob"
    /\ result.status = "ValueError"
    /\ ListOf(reminders, "bob") # <<>>

\* the day of the first Saturday on or after the day of t
FirstSaturday(t) == DayOf(t) + ((5 - weekday(t)) % DaysPerWeek)

\* C38: for every now, relativeDay = "this weekend" resolves to a date on the
\* first Saturday on or after today (today when today is Saturday), and
\* "next weekend" resolves to a date on the Saturday exactly 7 days after
\* that one.
C38_WeekendOnSaturday ==
    [][(result'.op = "parse_due" /\ result'.status = "ok") =>
          LET r == result'.ret[1]
              rd == lower(r.slots.relative_day)
          IN  /\ rd = "this weekend" => DayOf(r.due) = FirstSaturday(r.now)
              /\ rd = "next weekend" =>
                     DayOf(r.due) = FirstSaturday(r.now) + DaysPerWeek]_vars

====
